---- MODULE Spec2Model ----
(***************************************************************************)
(* A model of m2m.py, the markdown-to-Moodle-XML converter.                *)
(*                                                                         *)
(* Text is a sequence of one-character strings.  Python objects that are   *)
(* shared by reference (the section lists, the question dictionaries) live *)
(* in two heaps, `lists' and `questions', and are named by their index.    *)
(*                                                                         *)
(*   Spec        md_script_to_dictionary, one step per line of the script, *)
(*               then completing_dictionary                                *)
(*   SpecScore   completing_dictionary on a parsed one-question document   *)
(*   SpecRender  question_to_xml on one question: render_text line by      *)
(*               line, then render_answer for its answer                   *)
(***************************************************************************)
EXTENDS Integers, Sequences, FiniteSets, TLC

VARIABLES
    rows,              \* the lines of md_script consumed so far (raw)
    dictionary,        \* insertion-ordered dict: <<caption, list id>> pairs
    lists,             \* heap of Python lists of question ids
    questions,         \* heap of question dictionaries
    section,           \* the list `section' refers to
    current_question,  \* the dictionary `current_question' refers to
    current_answer,    \* the value of `current_answer'
    pc,                \* "parsing" | "parsed" | "done" | "error" | "idle"
    kind,              \* render input: "fenced" | "inline"
    lang_in,           \* render input: the language tag of the fence
    code_in,           \* render input: the code text
    rq,                \* the question handed to question_to_xml
    rtext,             \* the local `text' of render_text
    raster_calls,      \* calls made to convert_code_image_base64
    answer_out,        \* what render_answer returned for the answer
    rpc                \* position inside question_to_xml

pvars == <<rows, dictionary, lists, questions, section, current_question,
           current_answer, pc>>
rvars == <<kind, lang_in, code_in, rq, rtext, raster_calls, answer_out, rpc>>
vars == <<rows, dictionary, lists, questions, section, current_question,
          current_answer, pc, kind, lang_in, code_in, rq, rtext,
          raster_calls, answer_out, rpc>>

(***************************************************************************)
(* Bounds.                                                                 *)
(***************************************************************************)
MaxLines == 4
MaxCorrect == 29
MaxWrong == 2
MaxCode == 3

(***************************************************************************)
(* Text helpers.                                                           *)
(***************************************************************************)
NL == "\n"
CR == "\r"
\* The backtick character (a string literal cannot hold one).
BT == "BACKTICK"

Min(S) == CHOOSE x \in S : \A y \in S : x <= y
Max(S) == CHOOSE x \in S : \A y \in S : x >= y

\* Python's \s on the characters the model uses.
IsSpace(c) == c \in {" ", "\t", "\n", "\r", "\f"}

\* Whether `sub' occurs in `s' at (1-based) position i.
OccursAt(s, sub, i) ==
    /\ i >= 1
    /\ i + Len(sub) - 1 <= Len(s)
    /\ \A k \in 1..Len(sub) : s[i + k - 1] = sub[k]

\* str.find: the 0-based index of the first occurrence, or -1.
Find(s, sub) ==
    LET hits == {i \in 1..(Len(s) + 1) : OccursAt(s, sub, i)}
    IN  IF hits = {} THEN -1 ELSE Min(hits) - 1

RECURSIVE ReplaceFrom(_, _, _, _)
ReplaceFrom(s, old, new, i) ==
    IF i > Len(s) THEN <<>>
    ELSE IF OccursAt(s, old, i)
         THEN new \o ReplaceFrom(s, old, new, i + Len(old))
         ELSE <<s[i]>> \o ReplaceFrom(s, old, new, i + 1)

\* str.replace(old, new) for a non-empty `old'.
Replace(s, old, new) == ReplaceFrom(s, old, new, 1)

RECURSIVE RStrip(_, _)
\* str.rstrip(c) for a single character c.
RStrip(s, c) ==
    IF Len(s) > 0 /\ s[Len(s)] = c THEN RStrip(SubSeq(s, 1, Len(s) - 1), c)
    ELSE s

\* The length of the run matched by a leading \s*.
LeadingSpaces(s) ==
    LET solid == {i \in 1..Len(s) : ~IsSpace(s[i])}
    IN  IF solid = {} THEN Len(s) ELSE Min(solid) - 1

Rest(s, i) == SubSeq(s, i, Len(s))

\* A match group, or None.
None == [some |-> FALSE, val |-> <<>>]
Some(v) == [some |-> TRUE, val |-> v]

(***************************************************************************)
(* Entity classifier.                                                      *)
(***************************************************************************)
\* HEADER_PATTERN  ^\s*# (.*)$
get_header(string) ==
    LET w == LeadingSpaces(string)
    IN  IF /\ Len(string) >= w + 2
           /\ string[w + 1] = "#"
           /\ string[w + 2] = " "
        THEN Some(Rest(string, w + 3))
        ELSE None

\* QUESTION_PATTERN  ^(\s*)\*(\s)(.*)$
get_question(string) ==
    LET w == LeadingSpaces(string)
    IN  IF /\ Len(string) >= w + 2
           /\ string[w + 1] = "*"
           /\ IsSpace(string[w + 2])
        THEN Some(Rest(string, w + 3))
        ELSE None

\* CORRECT_ANSWER_PATTERN  ^(\s*)-(\s)!(.*)$
get_correct_answer(string) ==
    LET w == LeadingSpaces(string)
    IN  IF /\ Len(string) >= w + 3
           /\ string[w + 1] = "-"
           /\ IsSpace(string[w + 2])
           /\ string[w + 3] = "!"
        THEN Some(Rest(string, w + 4))
        ELSE None

\* WRONG_ANSWER_PATTERN  ^(\s*)-(\s)(.*[^ ])$
get_wrong_answer(string) ==
    LET w == LeadingSpaces(string)
    IN  IF /\ Len(string) >= w + 3
           /\ string[w + 1] = "-"
           /\ IsSpace(string[w + 2])
           /\ string[Len(string)] # " "
        THEN Some(Rest(string, w + 3))
        ELSE None

is_header(string) == get_header(string).some
is_question(string) == get_question(string).some
is_correct_answer(string) == get_correct_answer(string).some
is_wrong_answer(string) == get_wrong_answer(string).some

\* EMPTY_LINE_PATTERN  ^\s*$
is_empty_line(string) == \A i \in 1..Len(string) : IsSpace(string[i])

\* md_row after the two rstrip calls of the loop.
strip_row(row) == RStrip(RStrip(row, CR), NL)

(***************************************************************************)
(* The lines a script is made of.                                          *)
(***************************************************************************)
Lines ==
    { <<"#", " ", "A">>,
      <<"#", " ", "B">>,
      <<"*", " ", "q">>,
      <<"-", " ", "!", "y">>,
      <<"-", " ", "n">>,
      <<"x">>,
      <<BT, BT, BT>>,
      <<>>,
      <<" ", " ">>,
      <<"\t", "\r">> }

(***************************************************************************)
(* Document builder.                                                       *)
(***************************************************************************)
EmptyDict ==
    [has_text |-> FALSE, text |-> <<>>, has_answers |-> FALSE,
     answers |-> <<>>, has_single |-> FALSE, single |-> FALSE]

NewQuestion(t) ==
    [has_text |-> TRUE, text |-> t, has_answers |-> TRUE,
     answers |-> <<>>, has_single |-> FALSE, single |-> FALSE]

NewAnswer(t, c) ==
    [text |-> t, correct |-> c, has_weight |-> FALSE, weight |-> 0]

NoAnswer == [text |-> <<>>, correct |-> FALSE, has_weight |-> FALSE, weight |-> 0]

\* dictionary[key] = ref on an insertion-ordered dict.
DictSet(d, key, ref) ==
    IF \E i \in 1..Len(d) : d[i][1] = key
    THEN [i \in 1..Len(d) |-> IF d[i][1] = key THEN <<key, ref>> ELSE d[i]]
    ELSE Append(d, <<key, ref>>)

Consume(row) ==
    /\ pc = "parsing"
    /\ Len(rows) < MaxLines
    /\ rows' = Append(rows, row)

\* OnHeader without `section = []': the caption is bound to the list in use.
OnHeaderKeepsList(row) ==
    LET md_row == strip_row(row) IN
    /\ Consume(row)
    /\ is_header(md_row)
    /\ dictionary' = DictSet(dictionary, get_header(md_row).val, section)
    /\ UNCHANGED <<lists, section, questions, current_question,
                   current_answer, pc>>

\* section = []; dictionary[get_header(md_row)] = section
OnHeader(row) ==
    LET md_row == strip_row(row) IN
    /\ Consume(row)
    /\ is_header(md_row)
    /\ lists' = Append(lists, <<>>)
    /\ section' = Len(lists) + 1
    /\ dictionary' = DictSet(dictionary, get_header(md_row).val, Len(lists) + 1)
    /\ UNCHANGED <<questions, current_question, current_answer, pc>>

\* current_question = {...}; section.append(current_question)
OnQuestion(row) ==
    LET md_row == strip_row(row) IN
    /\ Consume(row)
    /\ ~is_header(md_row)
    /\ is_question(md_row)
    /\ questions' = Append(questions, NewQuestion(get_question(md_row).val))
    /\ current_question' = Len(questions) + 1
    /\ lists' = [lists EXCEPT ![section] = Append(@, Len(questions) + 1)]
    /\ UNCHANGED <<dictionary, section, current_answer, pc>>

\* The two answer branches: current_question['answers'].append(current_answer),
\* a KeyError when current_question has no 'answers'.
AppendAnswer(answer) ==
    /\ current_answer' = answer
    /\ IF questions[current_question].has_answers
       THEN /\ questions' = [questions EXCEPT
                               ![current_question].answers = Append(@, answer)]
            /\ pc' = pc
       ELSE /\ questions' = questions
            /\ pc' = "error"
    /\ UNCHANGED <<dictionary, lists, section, current_question>>

OnCorrectAnswer(row) ==
    LET md_row == strip_row(row) IN
    /\ Consume(row)
    /\ ~is_header(md_row)
    /\ ~is_question(md_row)
    /\ is_correct_answer(md_row)
    /\ AppendAnswer(NewAnswer(get_correct_answer(md_row).val, TRUE))

OnWrongAnswer(row) ==
    LET md_row == strip_row(row) IN
    /\ Consume(row)
    /\ ~is_header(md_row)
    /\ ~is_question(md_row)
    /\ ~is_correct_answer(md_row)
    /\ is_wrong_answer(md_row)
    /\ AppendAnswer(NewAnswer(get_wrong_answer(md_row).val, FALSE))

NoEntity(md_row) ==
    /\ ~is_header(md_row)
    /\ ~is_question(md_row)
    /\ ~is_correct_answer(md_row)
    /\ ~is_wrong_answer(md_row)

\* elif not re.match(EMPTY_LINE_PATTERN, md_row): a continuation line.
OnContinuation(row) ==
    LET md_row == strip_row(row)
        q == questions[current_question]
        t == IF q.has_text THEN q.text ELSE <<>>
    IN
    /\ Consume(row)
    /\ NoEntity(md_row)
    /\ ~is_empty_line(md_row)
    /\ questions' = [questions EXCEPT
                       ![current_question].has_text = TRUE,
                       ![current_question].text = t \o md_row \o <<NL>>]
    /\ UNCHANGED <<dictionary, lists, section, current_question,
                   current_answer, pc>>

\* OnBlank appending a bare newline instead of md_row + '\n'.
OnBlankNewlineOnly(row) ==
    LET md_row == strip_row(row)
        q == questions[current_question]
    IN
    /\ Consume(row)
    /\ NoEntity(md_row)
    /\ is_empty_line(md_row)
    /\ IF q.has_text /\ Find(q.text, <<BT, BT, BT>>) > -1
       THEN questions' = [questions EXCEPT
                            ![current_question].text = @ \o <<NL>>]
       ELSE questions' = questions
    /\ UNCHANGED <<dictionary, lists, section, current_question,
                   current_answer, pc>>

\* else: a blank line, kept only inside a code block.
OnBlank(row) ==
    LET md_row == strip_row(row)
        q == questions[current_question]
    IN
    /\ Consume(row)
    /\ NoEntity(md_row)
    /\ is_empty_line(md_row)
    /\ IF q.has_text /\ Find(q.text, <<BT, BT, BT>>) > -1
       THEN questions' = [questions EXCEPT
                            ![current_question].text = @ \o md_row \o <<NL>>]
       ELSE questions' = questions
    /\ UNCHANGED <<dictionary, lists, section, current_question,
                   current_answer, pc>>

(***************************************************************************)
(* Scoring completer.                                                      *)
(***************************************************************************)
Scale == 1000000000

\* Round7 truncating instead of rounding.
Round7Truncated(n) == Scale \div n

\* round(100.0 / n, 7) in units of 1e-7: 10^9 / n rounded half to even.
Round7(n) ==
    LET q == Scale \div n
        r == Scale % n
    IN  IF 2 * r > n THEN q + 1
        ELSE IF 2 * r < n THEN q
        ELSE IF q % 2 = 0 THEN q ELSE q + 1

CorrectCount(q) == Cardinality({i \in 1..Len(q.answers) : q.answers[i].correct})

\* ClampedCount without the clamp.
UnclampedCount(q) == CorrectCount(q)

\* if correct_answer_count < 1: correct_answer_count = 1
ClampedCount(q) == IF CorrectCount(q) < 1 THEN 1 ELSE CorrectCount(q)

CompleteQuestion(q) ==
    [q EXCEPT
       !.has_single = TRUE,
       !.single = (ClampedCount(q) = 1),
       !.answers = [i \in 1..Len(q.answers) |->
                      [q.answers[i] EXCEPT
                         !.has_weight = TRUE,
                         !.weight = IF q.answers[i].correct
                                    THEN Round7(ClampedCount(q))
                                    ELSE 0]]]

\* The question ids reachable from the dictionary.
DocQuestions ==
    UNION { {lists[dictionary[i][2]][k] : k \in 1..Len(lists[dictionary[i][2]])} :
              i \in 1..Len(dictionary) }

\* completing_dictionary, called when the loop over the lines has ended.
Complete ==
    /\ pc \in {"parsing", "parsed"}
    /\ Len(rows) >= 1      \* md_script.split(NEW_LINE) is never empty
    /\ questions' = [id \in 1..Len(questions) |->
                       IF id \in DocQuestions
                       THEN CompleteQuestion(questions[id])
                       ELSE questions[id]]
    /\ pc' = "done"
    /\ UNCHANGED <<rows, dictionary, lists, section, current_question,
                   current_answer>>

\* question_single_status of question_to_xml.
question_single_status(q) == IF q.single THEN "true" ELSE "false"

(***************************************************************************)
(* Specification of the parser.                                            *)
(***************************************************************************)
RenderIdle ==
    /\ kind = "none"
    /\ lang_in = <<>>
    /\ code_in = <<>>
    /\ rq = EmptyDict
    /\ rtext = <<>>
    /\ raster_calls = <<>>
    /\ answer_out = [text |-> <<>>, cdata |-> FALSE]
    /\ rpc = "idle"

\* dictionary = {}; section, current_question, current_answer = ([], {}, {})
Init ==
    /\ rows = <<>>
    /\ dictionary = <<>>
    /\ lists = << <<>> >>
    /\ questions = <<EmptyDict>>
    /\ section = 1
    /\ current_question = 1
    /\ current_answer = NoAnswer
    /\ pc = "parsing"
    /\ RenderIdle

Next ==
    \/ \E row \in Lines : OnHeader(row) /\ UNCHANGED rvars
    \/ \E row \in Lines : OnQuestion(row) /\ UNCHANGED rvars
    \/ \E row \in Lines : OnCorrectAnswer(row) /\ UNCHANGED rvars
    \/ \E row \in Lines : OnWrongAnswer(row) /\ UNCHANGED rvars
    \/ \E row \in Lines : OnContinuation(row) /\ UNCHANGED rvars
    \/ \E row \in Lines : OnBlank(row) /\ UNCHANGED rvars
    \/ Complete /\ UNCHANGED rvars

Spec == Init /\ [][Next]_vars

(***************************************************************************)
(* Specification of the scoring completer alone: the document parsed from   *)
(* a header, a question and its answer lines.                               *)
(***************************************************************************)
AnswerList(nc, nw, correctFirst) ==
    LET c == [i \in 1..nc |-> NewAnswer(<<"y">>, TRUE)]
        w == [i \in 1..nw |-> NewAnswer(<<"n">>, FALSE)]
    IN  IF correctFirst THEN c \o w ELSE w \o c

\* The line an answer was parsed from.
AnswerRow(a) ==
    IF a.correct THEN <<"-", " ", "!">> \o a.text ELSE <<"-", " ">> \o a.text

InitScore ==
    /\ \E nc \in 0..MaxCorrect, nw \in 0..MaxWrong, correctFirst \in BOOLEAN :
          questions = <<EmptyDict,
                        [NewQuestion(<<"q">>) EXCEPT
                           !.answers = AnswerList(nc, nw, correctFirst)]>>
    /\ rows = << <<"#", " ", "A">>, <<"*", " ", "q">> >>
                \o [i \in 1..Len(questions[2].answers) |->
                      AnswerRow(questions[2].answers[i])]
    /\ current_answer = IF questions[2].answers = <<>> THEN NoAnswer
                        ELSE questions[2].answers[Len(questions[2].answers)]
    /\ dictionary = << <<(<<"A">>), 2>> >>
    /\ lists = << <<>>, <<2>> >>
    /\ section = 2
    /\ current_question = 2
    /\ pc = "parsed"
    /\ RenderIdle

NextScore == Complete /\ UNCHANGED rvars

SpecScore == InitScore /\ [][NextScore]_vars

(***************************************************************************)
(* Rendering.                                                              *)
(***************************************************************************)
AMP ==
    <<"&", "a", "m", "p", ";">>
GT ==
    <<"&", "g", "t", ";">>
LT ==
    <<"&", "l", "t", ";">>
CODE_OPEN ==
    <<"<", "c", "o", "d", "e", ">">>
CODE_CLOSE ==
    <<"<", "/", "c", "o", "d", "e", ">">>
PRE_OPEN ==
    <<"<", "p", "r", "e", ">", "<", "c", "o", "d", "e", ">">>
PRE_CLOSE ==
    <<"<", "/", "c", "o", "d", "e", ">", "<", "/", "p", "r", "e", ">">>
IMG_TOKEN ==
    <<"{", "i", "m", "g", "}">>
IMG_OPEN ==
    <<"<", "i", "m", "g", " ", "s", "t", "y", "l", "e", "=", "\"", "d",
      "i", "s", "p", "l", "a", "y", ":", "b", "l", "o", "c", "k", ";",
      "\"", " ", "s", "r", "c", "=", "\"">>
IMG_CLOSE ==
    <<"\"", " ", "/", ">">>
PNG_DATA ==
    <<"d", "a", "t", "a", ":", "i", "m", "a", "g", "e", "/", "p", "n", "g",
      ";", "b", "a", "s", "e", "6", "4", ",">>
PASCAL ==
    <<"p", "a", "s", "c", "a", "l">>
PY ==
    <<"p", "y">>

\* text.replace('&','&amp;'), then '>', then '<'.
sanitize_entities(text) ==
    Replace(Replace(Replace(text, <<"&">>, AMP), <<">">>, GT), <<"<">>, LT)

\* The repl of SINGLE_LINE_CODE_PATTERN, on match.group(1).
replace_single_line_code(code) ==
    CODE_OPEN \o sanitize_entities(code) \o CODE_CLOSE

\* The lexer names pygments knows, among those the model uses.
KnownLexers == {PASCAL, PY}

\* The lexer convert_code_image_base64 ends up using.
resolve_lexer(lexer_name) ==
    IF lexer_name = <<>> THEN PASCAL
    ELSE IF lexer_name \in KnownLexers THEN lexer_name
    ELSE PASCAL

\* The base64 text of the rendered PNG: characters of the base64 alphabet,
\* which no later pattern matches.
Base64Png(lexer, code) == <<"i", "V", "B", "O", "R", "w", "0", "K">>

\* convert_code_image_base64: the tag returned, and the call as made.
convert_code_image_base64(lexer_name, code) ==
    [out |-> IMG_OPEN \o PNG_DATA
               \o Base64Png(resolve_lexer(lexer_name), code) \o IMG_CLOSE,
     calls |-> << [lexer_name |-> lexer_name,
                   lexer |-> resolve_lexer(lexer_name),
                   code |-> code] >>]

\* The repl of MULTI_LINE_CODE_PATTERN, on match.group(1) and match.group(2).
replace_multi_line_code(lexer, code) ==
    LET to_image == Find(lexer, IMG_TOKEN) > 0
    IN  IF to_image
        THEN convert_code_image_base64(Replace(lexer, IMG_TOKEN, <<>>), code)
        ELSE [out |-> PRE_OPEN \o sanitize_entities(code) \o PRE_CLOSE,
              calls |-> <<>>]

\* SINGLE_LINE_CODE_PATTERN  `([^`]+)`  at position i: the position of the
\* closing backtick, or 0 when there is no match starting at i.
SingleMatchAt(text, i) ==
    IF i > Len(text) \/ text[i] # BT THEN 0
    ELSE LET later == {j \in (i + 1)..Len(text) : text[j] = BT}
         IN  IF later = {} \/ Min(later) = i + 1 THEN 0 ELSE Min(later)

RECURSIVE SubSingleFrom(_, _)
SubSingleFrom(text, i) ==
    IF i > Len(text) THEN <<>>
    ELSE LET j == SingleMatchAt(text, i) IN
         IF j > 0
         THEN replace_single_line_code(SubSeq(text, i + 1, j - 1))
                \o SubSingleFrom(text, j + 1)
         ELSE <<text[i]>> \o SubSingleFrom(text, i + 1)

\* re.sub(SINGLE_LINE_CODE_PATTERN, replace_single_line_code, text)
SubSingleLineCode(text) == SubSingleFrom(text, 1)

\* re.search(SINGLE_LINE_CODE_PATTERN, text)
SearchSingleLineCode(text) == \E i \in 1..Len(text) : SingleMatchAt(text, i) > 0

\* MULTI_LINE_CODE_PATTERN  ```(.*)\n([\s\S]+)```  at position i: (.*) runs
\* to the first newline, ([\s\S]+) greedily to the last ``` of the text.
MultiMatchAt(text, i) ==
    LET fence == <<BT, BT, BT>>
        nls == {n \in (i + 3)..Len(text) : text[n] = NL}
        n == IF nls = {} THEN 0 ELSE Min(nls)
        ends == {k \in (n + 2)..Len(text) : OccursAt(text, fence, k)}
    IN  IF OccursAt(text, fence, i) /\ n > 0 /\ ends # {}
        THEN [found |-> TRUE, nl |-> n, close |-> Max(ends)]
        ELSE [found |-> FALSE, nl |-> 0, close |-> 0]

RECURSIVE SubMultiFrom(_, _)
SubMultiFrom(text, i) ==
    IF i > Len(text) THEN [out |-> <<>>, calls |-> <<>>]
    ELSE LET m == MultiMatchAt(text, i) IN
         IF m.found
         THEN LET r == replace_multi_line_code(SubSeq(text, i + 3, m.nl - 1),
                                               SubSeq(text, m.nl + 1, m.close - 1))
                  rest == SubMultiFrom(text, m.close + 3)
              IN  [out |-> r.out \o rest.out, calls |-> r.calls \o rest.calls]
         ELSE LET rest == SubMultiFrom(text, i + 1)
              IN  [out |-> <<text[i]>> \o rest.out, calls |-> rest.calls]

\* re.sub(MULTI_LINE_CODE_PATTERN, replace_multi_line_code, text)
SubMultiLineCode(text) == SubMultiFrom(text, 1)

\* Whether IMAGE_PATTERN or a LATEX pattern can match: each needs a '!' or
\* a '$', which the texts of the model do not hold.
HasImageOrLatex(text) == \E i \in 1..Len(text) : text[i] \in {"!", "$"}

\* render_answer: the text handed to markdown() and whether the result is
\* wrapped in CDATA.
render_answer(text) ==
    LET coded == SearchSingleLineCode(text)
        t == IF coded THEN SubSingleLineCode(sanitize_entities(text)) ELSE text
    IN  [text |-> t, cdata |-> coded]

(***************************************************************************)
(* Specification of question_to_xml on one question.  Its text is the one  *)
(* the parser builds from `* q', a fence line, a code line and a closing   *)
(* fence (or from `* q `code`'), its answer the one of `- `code`'.         *)
(***************************************************************************)
CodeChars == {"&", "<", ">", "a", BT}

RECURSIVE Texts(_)
\* The texts of at most n characters.
Texts(n) ==
    IF n = 0 THEN {<<>>}
    ELSE Texts(n - 1) \cup
           {Append(t, c) : t \in {u \in Texts(n - 1) : Len(u) = n - 1},
                           c \in CodeChars}

Langs == {<<>>, PY, IMG_TOKEN, PY \o IMG_TOKEN, IMG_TOKEN \o PY}

FencedText(lang, code) ==
    <<"q", BT, BT, BT>> \o lang \o <<NL>> \o code \o <<NL, BT, BT, BT, NL>>

InlineText(code) == <<"q", " ", BT>> \o code \o <<BT>>

ParserIdle ==
    /\ rows = <<>>
    /\ dictionary = <<>>
    /\ lists = << <<>> >>
    /\ questions = <<EmptyDict>>
    /\ section = 1
    /\ current_question = 1
    /\ current_answer = NoAnswer
    /\ pc = "idle"

InitRender ==
    /\ code_in \in Texts(MaxCode)
    /\ \/ kind = "fenced" /\ lang_in \in Langs
       \/ kind = "inline" /\ lang_in = <<>>
    /\ rq = [NewQuestion(IF kind = "fenced"
                         THEN FencedText(lang_in, code_in)
                         ELSE InlineText(code_in))
               EXCEPT !.answers =
                        << [NewAnswer(<<BT>> \o code_in \o <<BT>>, FALSE)
                              EXCEPT !.has_weight = TRUE] >>,
                      !.has_single = TRUE,
                      !.single = TRUE]
    /\ rtext = rq.text
    /\ raster_calls = <<>>
    /\ answer_out = [text |-> <<>>, cdata |-> FALSE]
    /\ rpc = "stage1"
    /\ ParserIdle

\* render_text: text = re.sub(MULTI_LINE_CODE_PATTERN, ...)
RenderFenced ==
    /\ rpc = "stage1"
    /\ rtext' = SubMultiLineCode(rtext).out
    /\ raster_calls' = raster_calls \o SubMultiLineCode(rtext).calls
    /\ rpc' = "stage2"
    /\ UNCHANGED <<kind, lang_in, code_in, rq, answer_out>>

\* render_text: text = re.sub(SINGLE_LINE_CODE_PATTERN, ...)
RenderInline ==
    /\ rpc = "stage2"
    /\ rtext' = SubSingleLineCode(rtext)
    /\ rpc' = "stage3"
    /\ UNCHANGED <<kind, lang_in, code_in, rq, raster_calls, answer_out>>

\* render_text: the image and LaTeX substitutions; rtext is then the text
\* handed to markdown().
RenderRest ==
    /\ rpc = "stage3"
    /\ ~HasImageOrLatex(rtext)
    /\ rpc' = "answers"
    /\ UNCHANGED <<kind, lang_in, code_in, rq, rtext, raster_calls, answer_out>>

\* answer_to_xml for the answer of the question.
RenderAnswer ==
    /\ rpc = "answers"
    /\ ~HasImageOrLatex(rq.answers[1].text)
    /\ answer_out' = render_answer(rq.answers[1].text)
    /\ rpc' = "done"
    /\ UNCHANGED <<kind, lang_in, code_in, rq, rtext, raster_calls>>

NextRender ==
    \/ RenderFenced /\ UNCHANGED pvars
    \/ RenderInline /\ UNCHANGED pvars
    \/ RenderRest /\ UNCHANGED pvars
    \/ RenderAnswer /\ UNCHANGED pvars

SpecRender == InitRender /\ [][NextRender]_vars

(***************************************************************************)
(* Claims about the parser (Spec).                                         *)
(***************************************************************************)
LastRow == strip_row(rows[Len(rows)])

IsQuestionRow(i) ==
    ~is_header(strip_row(rows[i])) /\ is_question(strip_row(rows[i]))

QuestionRows == {i \in 1..Len(rows) : IsQuestionRow(i)}
HeaderRows == {i \in 1..Len(rows) : is_header(strip_row(rows[i]))}

\* The question dictionary created from question-start row i.
QuestionOf(i) == 1 + Cardinality({j \in QuestionRows : j <= i})

RECURSIVE SumLen(_, _)
SumLen(d, i) ==
    IF i > Len(d) THEN 0 ELSE Len(lists[d[i][2]]) + SumLen(d, i + 1)

\* C4: after md_script_to_dictionary, every question of the document has
\* single = true exactly when it has 1 or 0 correct answers and single =
\* false when it has 2 or more, and question_to_xml emits that flag as
\* 'true' / 'false'.
C4_SingleFlag ==
    pc = "done" =>
        \A id \in DocQuestions :
            LET q == questions[id]
                n == CorrectCount(q)
            IN  /\ q.has_single
                /\ (n \in {0, 1}) => q.single
                /\ (n >= 2) => ~q.single
                /\ question_single_status(q) = (IF n <= 1 THEN "true" ELSE "false")

\* A document question with two correct answers, flagged not single.
C4_Witness ==
    /\ pc = "done"
    /\ \E id \in DocQuestions :
          CorrectCount(questions[id]) >= 2 /\ ~questions[id].single

\* C5: a question-start line before the first header line produces no
\* question in the returned document: the question, with the answers and
\* continuation lines attached to it, is under no section, whatever headers
\* and questions follow, and once it has been read no line raises an error.
C5_OrphanDropped ==
    /\ Len(lists[1]) = Cardinality({i \in QuestionRows :
                                       \A h \in HeaderRows : h > i})
    /\ \A k \in 1..Len(lists[1]) :
          /\ lists[1][k] \notin DocQuestions
          /\ ~questions[lists[1][k]].has_single
    /\ \A i \in 1..Len(dictionary) : dictionary[i][2] # 1
    /\ SumLen(dictionary, 1) <= Cardinality({i \in QuestionRows :
                                               \E h \in HeaderRows : h < i})
    /\ pc = "error" => QuestionRows = {}

\* A dropped question with an answer, and a later question that is kept.
C5_Witness ==
    /\ pc = "done"
    /\ lists[1] # <<>>
    /\ questions[lists[1][1]].answers # <<>>
    /\ DocQuestions # {}

\* A step that consumes a blank line.
BlankStep ==
    /\ pc = "parsing"
    /\ pc' = "parsing"
    /\ Len(rows') = Len(rows) + 1
    /\ is_empty_line(strip_row(rows'[Len(rows')]))

InCodeBlock ==
    /\ questions[current_question].has_text
    /\ Find(questions[current_question].text, <<BT, BT, BT>>) > -1

\* C6 as claimed: a blank line either appends exactly one newline character
\* to the active question's text (when that text contains the 3-backtick
\* marker) or changes nothing.
C6_BlankAppendsNewline ==
    [][BlankStep =>
         /\ questions' = IF InCodeBlock
                         THEN [questions EXCEPT
                                 ![current_question].text = @ \o <<NL>>]
                         ELSE questions
         /\ UNCHANGED <<dictionary, lists, section, current_question>>]_vars

\* C6 amended: a blank line either appends the line itself (its whitespace,
\* less trailing carriage returns) followed by exactly one newline to the
\* active question's text (when that text contains the 3-backtick marker),
\* or leaves document, section, question and answers unchanged.
C6_BlankAppendsLine ==
    [][BlankStep =>
         /\ questions' = IF InCodeBlock
                         THEN [questions EXCEPT
                                 ![current_question].text =
                                    @ \o strip_row(rows'[Len(rows')]) \o <<NL>>]
                         ELSE questions
         /\ UNCHANGED <<dictionary, lists, section, current_question>>]_vars

\* A line of two spaces has been appended inside a code block.
C6_Witness ==
    /\ pc = "parsing"
    /\ Len(rows) >= 2
    /\ LastRow = <<" ", " ">>
    /\ LET t == questions[current_question].text
       IN  /\ Find(t, <<BT, BT, BT>>) > -1
           /\ Len(t) >= 3
           /\ SubSeq(t, Len(t) - 2, Len(t)) = <<" ", " ", NL>>

\* C7: md_script_to_dictionary raises no error on any sequence of lines.
C7_NoError == pc # "error"

\* The questions of the sections started before the active one.
EarlierSectionQuestions ==
    UNION { {lists[l][k] : k \in 1..Len(lists[l])} :
              l \in {m \in 2..Len(lists) : m # section} }

\* C9: once a header line has been processed, no later line modifies a
\* question that belongs to an earlier section.
C9_SectionIsolation ==
    [][pc' # "done" =>
         \A id \in EarlierSectionQuestions : questions'[id] = questions[id]]_vars

RECURSIVE KeptApart(_, _)
\* Text t extended by the lines kept from row i on, each with its newline.
KeptApart(t, i) ==
    IF i > Len(rows) THEN t
    ELSE LET r == strip_row(rows[i]) IN
         IF IsQuestionRow(i) THEN t
         ELSE IF is_header(r) \/ is_correct_answer(r) \/ is_wrong_answer(r)
              THEN KeptApart(t, i + 1)
         ELSE IF ~is_empty_line(r) \/ Find(t, <<BT, BT, BT>>) > -1
              THEN KeptApart(t \o r \o <<NL>>, i + 1)
         ELSE KeptApart(t, i + 1)

\* C10: Question.text holds the text captured from the question-start line
\* and every continuation line after it, in source order, each terminated
\* by a newline.
C10_LinesKeptApart ==
    \A i \in QuestionRows :
        questions[QuestionOf(i)].text =
            KeptApart(get_question(strip_row(rows[i])).val \o <<NL>>, i + 1)

(***************************************************************************)
(* Claims about the scoring completer (SpecScore).                         *)
(***************************************************************************)
Abs(x) == IF x < 0 THEN -x ELSE x

RECURSIVE SumCorrect(_, _)
\* The sum of the weights of the correct answers, in units of 1e-7.
SumCorrect(as, i) ==
    IF i > Len(as) THEN 0
    ELSE (IF as[i].correct THEN as[i].weight ELSE 0) + SumCorrect(as, i + 1)

WeightsRounded(q) ==
    LET n == CorrectCount(q) IN
    \A i \in 1..Len(q.answers) :
        /\ q.answers[i].has_weight
        /\ q.answers[i].correct => 2 * Abs(n * q.answers[i].weight - Scale) <= n
        /\ ~q.answers[i].correct => q.answers[i].weight = 0

\* C3 as claimed: for every n >= 1 correct answers each has weight
\* round(100/n, 7), the weights of the correct answers sum to 100.0 within
\* 1e-6, and every incorrect answer has weight 0.
C3_SumWithinMicro ==
    pc = "done" =>
        \A id \in DocQuestions :
            LET q == questions[id] IN
            CorrectCount(q) >= 1 =>
                /\ WeightsRounded(q)
                /\ Abs(SumCorrect(q.answers, 1) - Scale) <= 10

\* C3 amended: each correct answer has weight round(100/n, 7), every
\* incorrect answer has weight 0, and the sum of the correct weights is
\* within n * 5e-8 of 100.0, which is within 1e-6 when n <= 20.
C3_SumWithinRounding ==
    pc = "done" =>
        \A id \in DocQuestions :
            LET q == questions[id]
                n == CorrectCount(q)
            IN  n >= 1 =>
                /\ WeightsRounded(q)
                /\ 2 * Abs(SumCorrect(q.answers, 1) - Scale) <= n
                /\ n <= 20 => Abs(SumCorrect(q.answers, 1) - Scale) < 10

\* Seven correct answers of weight 14.2857143 beside a wrong one.
C3_Witness ==
    /\ pc = "done"
    /\ \E id \in DocQuestions :
          LET q == questions[id] IN
          /\ CorrectCount(q) = 7
          /\ Len(q.answers) > 7
          /\ SumCorrect(q.answers, 1) = Scale + 1
(***************************************************************************)
(* Claims about rendering (SpecRender).                                    *)
(***************************************************************************)
EscapeChar(c) ==
    IF c = "&" THEN AMP ELSE IF c = "<" THEN LT ELSE IF c = ">" THEN GT ELSE <<c>>

RECURSIVE EscapeOnce(_)
\* Every '&', '<' and '>' replaced by its entity, once.
EscapeOnce(t) ==
    IF t = <<>> THEN <<>> ELSE EscapeChar(Head(t)) \o EscapeOnce(Tail(t))

Contains(t, sub) == Find(t, sub) > -1

HasPrefix(t, p) == OccursAt(t, p, 1)
HasSuffix(t, p) == OccursAt(t, p, Len(t) - Len(p) + 1)

\* The text between the wrapper `open' and the wrapper `close'.
Inner(t, open, close) == SubSeq(t, Len(open) + 1, Len(t) - Len(close))

Wrapped(t, open, close) ==
    Len(t) >= Len(open) + Len(close) /\ HasPrefix(t, open) /\ HasSuffix(t, close)

EscapedOnce(inner, code) ==
    /\ inner = EscapeOnce(code)
    /\ ~Contains(inner, <<"<">>)
    /\ ~Contains(inner, <<">">>)
    /\ ~Contains(inner, AMP \o Tail(AMP))
    /\ ~Contains(inner, AMP \o Tail(LT))
    /\ ~Contains(inner, AMP \o Tail(GT))

PlainCode == code_in # <<>> /\ ~Contains(code_in, <<BT>>)

\* C1: on each of the three rendering paths (fenced block in a question,
\* inline code span in a question, inline code span in an answer) the text
\* inside the wrapping tags has every '&', '<', '>' of the code escaped
\* exactly once: no literal '<' or '>', nothing escaped twice.
C1_EscapedOnceOnEveryPath ==
    PlainCode =>
        /\ (kind = "fenced" /\ ~Contains(lang_in, IMG_TOKEN) /\ rpc # "stage1") =>
              /\ Wrapped(rtext, <<"q">> \o PRE_OPEN, PRE_CLOSE \o <<NL>>)
              /\ EscapedOnce(Inner(rtext, <<"q">> \o PRE_OPEN,
                                   <<NL>> \o PRE_CLOSE \o <<NL>>), code_in)
        /\ (kind = "inline" /\ rpc \notin {"stage1", "stage2"}) =>
              /\ Wrapped(rtext, <<"q", " ">> \o CODE_OPEN, CODE_CLOSE)
              /\ EscapedOnce(Inner(rtext, <<"q", " ">> \o CODE_OPEN, CODE_CLOSE),
                             code_in)
        /\ (rpc = "done") =>
              /\ answer_out.cdata
              /\ Wrapped(answer_out.text, CODE_OPEN, CODE_CLOSE)
              /\ EscapedOnce(Inner(answer_out.text, CODE_OPEN, CODE_CLOSE),
                             code_in)

\* C2: a fenced block is rasterized to an <img> tag, the token removed from
\* the language handed to the rasterizer, if and only if its language tag
\* contains '{img}' at any position; otherwise it is escaped and wrapped in
\* <pre><code>.
C2_ImageIffToken ==
    (kind = "fenced" /\ rpc # "stage1") =>
        IF Contains(lang_in, IMG_TOKEN)
        THEN /\ Len(raster_calls) = 1
             /\ raster_calls[1].lexer_name = Replace(lang_in, IMG_TOKEN, <<>>)
             /\ HasPrefix(rtext, <<"q">> \o IMG_OPEN)
        ELSE /\ raster_calls = <<>>
             /\ HasPrefix(rtext, <<"q">> \o PRE_OPEN)

\* C8: the inline-code pass of render_text leaves the output of the
\* fenced-code pass as it was, also when the fenced code holds a pair of
\* single backticks.
C8_InlinePassKeepsFenced ==
    (kind = "fenced" /\ rpc \notin {"stage1", "stage2"}) =>
        rtext = SubMultiLineCode(rq.text).out
====
